---------------------------- MODULE Spec2Model ----------------------------
(***************************************************************************)
(* Model of the content-aligned image similarity engine of                 *)
(* ai_pic_compare/pic_compare.py.                                          *)
(*                                                                         *)
(* An image is a record [w, h, ch, px]: width, height, number of channels  *)
(* (1 = grayscale, 3 = BGR, 4 = BGRA) and the row-major sequence of its    *)
(* pixels, each pixel a sequence of ch values in 0..255 (numpy uint8).     *)
(* Floating point results are carried in fixed point, One standing for     *)
(* 1.0; the mean squared error is carried exactly as a fraction num/den.   *)
(***************************************************************************)
EXTENDS Integers, Sequences, FiniteSets, TLC

\* Largest pixel area (width * height) of an input image of the model.
MaxArea == 4

\* Fixed-point unit: the integer that stands for the float 1.0.
One == 100 * 100

NoImage == [w |-> 0, h |-> 0, ch |-> 0, px |-> << >>]

Max(a, b) == IF a >= b THEN a ELSE b

Min(a, b) == IF a <= b THEN a ELSE b

RECURSIVE SumSeq(_)
SumSeq(s) == IF s = << >> THEN 0 ELSE Head(s) + SumSeq(Tail(s))

\* numpy indexing img[y, x] with 0-based x, y on the row-major pixel sequence.
PixelAt(img, x, y) == img.px[y * img.w + x + 1]

Area(img) == img.w * img.h

\* Mutant of Crop: img[y0:y1, x0:x1], the upper bounds excluded.
CropExclusive(img, x0, y0, x1, y1) ==
    LET cw == x1 - x0
        chh == y1 - y0
    IN  [w |-> cw, h |-> chh, ch |-> img.ch,
         px |-> [i \in 1..(cw * chh) |->
                    PixelAt(img, x0 + ((i - 1) % cw), y0 + ((i - 1) \div cw))]]

\* img[y0:y1+1, x0:x1+1]: the sub-image of rows y0..y1 and columns x0..x1.
Crop(img, x0, y0, x1, y1) ==
    LET cw == x1 - x0 + 1
        chh == y1 - y0 + 1
    IN  [w |-> cw, h |-> chh, ch |-> img.ch,
         px |-> [i \in 1..(cw * chh) |->
                    PixelAt(img, x0 + ((i - 1) % cw), y0 + ((i - 1) \div cw))]]

(***************************************************************************)
(* extract_content_bbox: the bounding box of the pixels whose alpha        *)
(* exceeds AlphaThreshold, or the whole image when there is no alpha       *)
(* channel or no such pixel.                                               *)
(***************************************************************************)
AlphaThreshold == 10

HasAlphaChannel(img) == img.ch = 4

\* Mutant of Mask: alpha >= 10.
MaskInclusive(img, x, y) ==
    IF HasAlphaChannel(img) THEN PixelAt(img, x, y)[4] >= AlphaThreshold ELSE TRUE

\* Mutant of Mask: alpha > 0, the threshold dropped.
MaskNonZero(img, x, y) ==
    IF HasAlphaChannel(img) THEN PixelAt(img, x, y)[4] > 0 ELSE TRUE

\* mask = alpha > 10, or all True without an alpha channel
Mask(img, x, y) ==
    IF HasAlphaChannel(img) THEN PixelAt(img, x, y)[4] > AlphaThreshold ELSE TRUE

\* np.argwhere(mask): the (y, x) coordinates of the visible pixels
Coords(img) ==
    {c \in (0..(img.h - 1)) \X (0..(img.w - 1)) : Mask(img, c[2], c[1])}

SetMin(S) == CHOOSE m \in S : \A n \in S : m <= n

SetMax(S) == CHOOSE m \in S : \A n \in S : m >= n

\* Mutant of extract_content_bbox: the bounding box is never cropped to.
extract_full_image(img) ==
    [x |-> 0, y |-> 0, w |-> img.w, h |-> img.h,
     content |-> img, has_alpha |-> HasAlphaChannel(img)]

extract_content_bbox(img) ==
    LET has_alpha == HasAlphaChannel(img)
        coords == Coords(img)
    IN  IF coords = {}
        THEN [x |-> 0, y |-> 0, w |-> img.w, h |-> img.h,
              content |-> img, has_alpha |-> has_alpha]
        ELSE LET y_min == SetMin({c[1] : c \in coords})
                 x_min == SetMin({c[2] : c \in coords})
                 y_max == SetMax({c[1] : c \in coords})
                 x_max == SetMax({c[2] : c \in coords})
             IN  [x |-> x_min, y |-> y_min,
                  w |-> x_max - x_min + 1, h |-> y_max - y_min + 1,
                  content |-> Crop(img, x_min, y_min, x_max, y_max),
                  has_alpha |-> has_alpha]

(***************************************************************************)
(* convert_to_white_bg: alpha blending over a white backdrop.  The float64 *)
(* expression bgr * (a/255.0) + 255 * (1 - a/255.0) is cast to uint8 by    *)
(* truncation.  Its exact value is (bgr*a + 255*(255 - a)) / 255; for the  *)
(* (bgr, a) pairs of FloatShort the exact value is a whole number and the  *)
(* float64 sum falls just below it, so that the cast gives one less.       *)
(***************************************************************************)
FloatShort ==
    {<<0, 43>>, <<0, 59>>, <<0, 74>>, <<0, 75>>, <<0, 90>>, <<0, 91>>,
     <<0, 106>>, <<0, 107>>, <<0, 122>>, <<0, 123>>, <<0, 132>>, <<0,
     133>>, <<0, 140>>, <<0, 141>>, <<0, 148>>, <<0, 149>>, <<0, 156>>,
     <<0, 157>>, <<0, 164>>, <<0, 165>>, <<0, 172>>, <<0, 173>>, <<0,
     180>>, <<0, 181>>, <<0, 188>>, <<0, 189>>, <<0, 196>>, <<0, 197>>,
     <<0, 198>>, <<0, 204>>, <<0, 205>>, <<0, 206>>, <<0, 212>>, <<0,
     213>>, <<0, 214>>, <<0, 220>>, <<0, 221>>, <<0, 222>>, <<0, 228>>,
     <<0, 229>>, <<0, 230>>, <<0, 236>>, <<0, 237>>, <<0, 238>>, <<0,
     244>>, <<0, 245>>, <<0, 246>>, <<0, 252>>, <<0, 253>>, <<0, 254>>,
     <<5, 204>>, <<10, 204>>, <<15, 204>>, <<15, 221>>, <<15, 238>>,
     <<17, 75>>, <<17, 90>>, <<17, 165>>, <<17, 180>>, <<20, 204>>,
     <<25, 204>>, <<30, 204>>, <<30, 221>>, <<34, 75>>, <<34, 90>>,
     <<34, 165>>, <<34, 180>>, <<35, 204>>, <<40, 204>>, <<45, 204>>,
     <<50, 204>>, <<51, 75>>, <<51, 90>>, <<51, 165>>, <<51, 180>>,
     <<51, 220>>, <<51, 245>>, <<55, 204>>, <<60, 204>>, <<65, 204>>,
     <<68, 75>>, <<68, 90>>, <<68, 180>>, <<70, 204>>, <<75, 204>>,
     <<80, 204>>, <<85, 75>>, <<85, 90>>, <<85, 123>>, <<85, 204>>,
     <<85, 228>>, <<85, 252>>, <<90, 204>>, <<95, 204>>, <<102, 75>>,
     <<102, 90>>, <<102, 220>>, <<119, 75>>, <<119, 90>>, <<136, 75>>,
     <<136, 90>>, <<153, 75>>, <<153, 90>>, <<170, 75>>, <<170, 90>>,
     <<170, 123>>, <<187, 75>>, <<187, 90>>, <<204, 75>>, <<204, 90>>,
     <<221, 75>>, <<221, 90>>, <<238, 75>>, <<238, 90>>, <<255, 43>>,
     <<255, 59>>, <<255, 74>>, <<255, 75>>, <<255, 90>>, <<255, 91>>,
     <<255, 106>>, <<255, 107>>, <<255, 122>>, <<255, 123>>}

\* The exact value of the blend, rounded down.
BlendExact(c, a) == (c * a + 255 * (255 - a)) \div 255

\* Mutant of Blend: the float value rounded to the nearest integer.
BlendRounded(c, a) == (2 * (c * a + 255 * (255 - a)) + 255) \div 510

Blend(c, a) == BlendExact(c, a) - (IF <<c, a>> \in FloatShort THEN 1 ELSE 0)

convert_to_white_bg(img, has_alpha) ==
    IF has_alpha /\ img.ch = 4
    THEN [w |-> img.w, h |-> img.h, ch |-> 3,
          px |-> [i \in 1..Len(img.px) |->
                     [c \in 1..3 |-> Blend(img.px[i][c], img.px[i][4])]]]
    ELSE IF img.ch >= 3
         THEN [w |-> img.w, h |-> img.h, ch |-> 3,
               px |-> [i \in 1..Len(img.px) |-> [c \in 1..3 |-> img.px[i][c]]]]
         ELSE img

(***************************************************************************)
(* Resampling an image to width tw and height th, as cv2.resize with       *)
(* INTER_LANCZOS4 and PIL's Image.resize do.  The result has exactly the   *)
(* target size; each target pixel is a normalised weighted mean of the     *)
(* source pixels it covers, saturated to uint8.  The filter kernel is      *)
(* represented by equal weights over the covered source block.             *)
(***************************************************************************)
SrcLo(i, s, d) == (i * s) \div d

SrcHi(i, s, d) == Max(SrcLo(i, s, d), ((i + 1) * s + d - 1) \div d - 1)

Resample(img, tw, th) ==
    LET Block(x, y) ==
            (SrcLo(y, img.h, th)..SrcHi(y, img.h, th))
                \X (SrcLo(x, img.w, tw)..SrcHi(x, img.w, tw))
        RECURSIVE SumOver(_, _)
        SumOver(S, c) ==
            IF S = {} THEN 0
            ELSE LET p == CHOOSE q \in S : TRUE
                 IN  PixelAt(img, p[2], p[1])[c] + SumOver(S \ {p}, c)
        Value(x, y, c) == SumOver(Block(x, y), c) \div Cardinality(Block(x, y))
    IN  [w |-> tw, h |-> th, ch |-> img.ch,
         px |-> [i \in 1..(tw * th) |->
                    [c \in 1..img.ch |->
                        Value((i - 1) % tw, (i - 1) \div tw, c)]]]

\* cv2.resize(img, target_size, interpolation=cv2.INTER_LANCZOS4)
cv2_resize(img, tw, th) == Resample(img, tw, th)

(***************************************************************************)
(* resize_content_to_same_size, as called with target_size = None.         *)
(***************************************************************************)
\* Mutant of target_size: the comparison inverted, the larger size is the target.
target_size_larger(img1, img2) ==
    IF img1.h * img1.w >= img2.h * img2.w
    THEN <<img1.w, img1.h>>
    ELSE <<img2.w, img2.h>>

\* Mutant of target_size: < in place of <=, the second size wins a tie.
target_size_strict(img1, img2) ==
    IF img1.h * img1.w < img2.h * img2.w
    THEN <<img1.w, img1.h>>
    ELSE <<img2.w, img2.h>>

target_size(img1, img2) ==
    IF img1.h * img1.w <= img2.h * img2.w
    THEN <<img1.w, img1.h>>
    ELSE <<img2.w, img2.h>>

\* Mutant of resize_content_to_same_size: resampling only when the areas
\* differ, as resize_to_match does.
resize_only_on_area(img1, img2) ==
    LET a1 == img1.h * img1.w
        a2 == img2.h * img2.w
    IN  [resized1 |-> IF a1 > a2 THEN cv2_resize(img1, img2.w, img2.h) ELSE img1,
         resized2 |-> IF a2 > a1 THEN cv2_resize(img2, img1.w, img1.h) ELSE img2,
         resampled1 |-> a1 > a2,
         resampled2 |-> a2 > a1]

\* Mutant of resize_content_to_same_size: both images always go through
\* cv2.resize.
resize_both_always(img1, img2) ==
    LET t == target_size(img1, img2)
    IN  [resized1 |-> cv2_resize(img1, t[1], t[2]),
         resized2 |-> cv2_resize(img2, t[1], t[2]),
         resampled1 |-> TRUE,
         resampled2 |-> TRUE]

resize_content_to_same_size(img1, img2) ==
    LET t == target_size(img1, img2)
        resample1 == <<img1.w, img1.h>> # t
        resample2 == <<img2.w, img2.h>> # t
    IN  [resized1 |-> IF resample1 THEN cv2_resize(img1, t[1], t[2]) ELSE img1,
         resized2 |-> IF resample2 THEN cv2_resize(img2, t[1], t[2]) ELSE img2,
         resampled1 |-> resample1,
         resampled2 |-> resample2]

(***************************************************************************)
(* The metric suite of calculate_aligned_similarity.                       *)
(***************************************************************************)
\* Mutant of max_mse: the square dropped.
max_mse_unsquared == 255 * 3

\* max_mse = 255 * 255 * 3
max_mse == 255 * 255 * 3

\* The flattened values of an image: every channel of every pixel.
Flat(img) ==
    [k \in 1..(Len(img.px) * img.ch) |->
        img.px[((k - 1) \div img.ch) + 1][((k - 1) % img.ch) + 1]]

\* np.mean((aligned1.astype(float) - aligned2.astype(float)) ** 2), exactly,
\* as the fraction num / den
MeanSquaredError(a1, a2) ==
    LET f1 == Flat(a1)
        f2 == Flat(a2)
    IN  [num |-> SumSeq([k \in 1..Len(f1) |-> (f1[k] - f2[k]) * (f1[k] - f2[k])]),
         den |-> Len(f1)]

\* Mutant of PixelSimilarity: mse / max_mse, not subtracted from 1.
PixelDissimilarity(mse) ==
    (((mse.num * 100) \div mse.den) * 100) \div max_mse

\* pixel_similarity = 1 - (mse / max_mse), in fixed point
PixelSimilarity(mse) ==
    One - ((((mse.num * 100) \div mse.den) * 100) \div max_mse)

\* cv2.cvtColor(img, cv2.COLOR_BGR2GRAY): OpenCV's 14-bit fixed-point luma
GrayOf(p) == (p[1] * 1868 + p[2] * 9617 + p[3] * 4899 + 8192) \div 16384

BGR2GRAY(img) == [i \in 1..Len(img.px) |-> GrayOf(img.px[i])]

(***************************************************************************)
(* skimage structural_similarity on uint8 grayscale images (data range     *)
(* 255, K1 = 0.01, K2 = 0.03), with one window covering the whole image:   *)
(*   ((2 mx my + C1)(2 cxy + C2)) / ((mx^2 + my^2 + C1)(vx + vy + C2)).    *)
(* All terms are scaled by 2 n^2; C1 = 6.5025 and C2 = 58.5225 are taken   *)
(* as 13/2 and 117/2.  The result is in fixed point.                       *)
(***************************************************************************)
ssim(g1, g2) ==
    LET n == Len(g1)
        sx == SumSeq(g1)
        sy == SumSeq(g2)
        sxx == SumSeq([i \in 1..n |-> g1[i] * g1[i]])
        syy == SumSeq([i \in 1..n |-> g2[i] * g2[i]])
        sxy == SumSeq([i \in 1..n |-> g1[i] * g2[i]])
        c1 == 13 * n * n
        c2 == 117 * n * n
        lum_num == 4 * sx * sy + c1
        lum_den == 2 * (sx * sx + sy * sy) + c1
        con_num == 4 * (n * sxy - sx * sy) + c2
        con_den == 2 * ((n * sxx - sx * sx) + (n * syy - sy * sy)) + c2
    IN  ((lum_num * 100) \div lum_den) * ((con_num * 100) \div con_den)

\* cv2.calcHist([img], [ch], None, [256], [0, 256]): value -> count, given
\* on the values that occur (every other bin is 0)
HistValues(img, ch) == {img.px[i][ch] : i \in 1..Len(img.px)}

HistCount(img, ch, v) == Cardinality({i \in 1..Len(img.px) : img.px[i][ch] = v})

RECURSIVE SumSet(_, _, _, _, _)
\* sum over v in S of hist1[v] * hist2[v]
SumSet(S, img1, img2, ch, acc) ==
    IF S = {} THEN acc
    ELSE LET v == CHOOSE u \in S : TRUE
         IN  SumSet(S \ {v}, img1, img2, ch,
                    acc + HistCount(img1, ch, v) * HistCount(img2, ch, v))

RECURSIVE SqrtBetween(_, _, _)
\* the largest r in lo..hi with r * r <= n
SqrtBetween(n, lo, hi) ==
    IF lo >= hi THEN lo
    ELSE LET mid == (lo + hi + 1) \div 2
         IN  IF mid * mid <= n
             THEN SqrtBetween(n, mid, hi)
             ELSE SqrtBetween(n, lo, mid - 1)

Isqrt(n) == SqrtBetween(n, 0, Min(n, 46340))

(***************************************************************************)
(* cv2.compareHist(hist1, hist2, cv2.HISTCMP_CORREL): the Pearson          *)
(* correlation of the two 256-bin histograms (unchanged by the positive    *)
(* scaling of cv2.normalize), 1 when a histogram has no variance.  Sums    *)
(* are scaled by 256; the result is in fixed point.                        *)
(***************************************************************************)
compareHist(img1, img2, ch) ==
    LET n1 == Len(img1.px)
        n2 == Len(img2.px)
        cov == 256 * SumSet(HistValues(img1, ch) \cap HistValues(img2, ch),
                            img1, img2, ch, 0) - n1 * n2
        var1 == 256 * SumSet(HistValues(img1, ch), img1, img1, ch, 0) - n1 * n1
        var2 == 256 * SumSet(HistValues(img2, ch), img2, img2, ch, 0) - n2 * n2
        root == Isqrt(var1 * var2)
    IN  IF root = 0 THEN One ELSE (cov * One) \div root

\* Mutant of ChannelSimilarity: the correlation appended without max(0, ...).
ChannelCorrelation(img1, img2, ch) == compareHist(img1, img2, ch)

\* hist_similarities.append(max(0, corr))
ChannelSimilarity(img1, img2, ch) == Max(0, compareHist(img1, img2, ch))

\* avg_hist_similarity = np.mean(hist_similarities) over range(3)
HistogramSimilarity(img1, img2) ==
    (ChannelSimilarity(img1, img2, 1) + ChannelSimilarity(img1, img2, 2)
        + ChannelSimilarity(img1, img2, 3)) \div 3

\* Mutant of PerceptualSimilarity: weights 0.5, 0.3, 0.3.
PerceptualSimilarityOverweight(ssim_score, pixel_similarity, avg_hist_similarity) ==
    (ssim_score * 5 + pixel_similarity * 3 + avg_hist_similarity * 3) \div 10

\* Mutant of PerceptualSimilarity: the weights of ssim and pixel similarity
\* exchanged.
PerceptualSimilaritySwapped(ssim_score, pixel_similarity, avg_hist_similarity) ==
    (ssim_score * 3 + pixel_similarity * 5 + avg_hist_similarity * 2) \div 10

\* ssim_score * 0.5 + pixel_similarity * 0.3 + avg_hist_similarity * 0.2
PerceptualSimilarity(ssim_score, pixel_similarity, avg_hist_similarity) ==
    (ssim_score * 5 + pixel_similarity * 3 + avg_hist_similarity * 2) \div 10

(***************************************************************************)
(* calculate_aligned_similarity.  The numpy subtraction and cv2.cvtColor   *)
(* need two 3-channel images: with a single-channel (grayscale) image the  *)
(* call raises, which the result records as ok = FALSE.                    *)
(***************************************************************************)
calculate_aligned_similarity(img1_content, img2_content, has_alpha1, has_alpha2) ==
    LET bgr1 == convert_to_white_bg(img1_content, has_alpha1)
        bgr2 == convert_to_white_bg(img2_content, has_alpha2)
        r == resize_content_to_same_size(bgr1, bgr2)
        aligned1 == r.resized1
        aligned2 == r.resized2
    IN  IF aligned1.ch # 3 \/ aligned2.ch # 3
        THEN [ok |-> FALSE, aligned1 |-> aligned1, aligned2 |-> aligned2,
              resampled1 |-> r.resampled1, resampled2 |-> r.resampled2]
        ELSE LET mse == MeanSquaredError(aligned1, aligned2)
                 pixel_similarity == PixelSimilarity(mse)
                 ssim_score == ssim(BGR2GRAY(aligned1), BGR2GRAY(aligned2))
                 avg_hist_similarity == HistogramSimilarity(aligned1, aligned2)
             IN  [ok |-> TRUE, aligned1 |-> aligned1, aligned2 |-> aligned2,
                  resampled1 |-> r.resampled1, resampled2 |-> r.resampled2,
                  pixel_similarity |-> pixel_similarity,
                  ssim |-> ssim_score,
                  histogram_similarity |-> avg_hist_similarity,
                  perceptual_similarity |->
                      PerceptualSimilarity(ssim_score, pixel_similarity,
                                           avg_hist_similarity),
                  mse |-> mse,
                  aligned_size |-> <<aligned1.w, aligned1.h>>,
                  total_pixels |-> aligned1.h * aligned1.w]

(***************************************************************************)
(* The hash distances (imagehash on PIL images opened from the paths).     *)
(* PIL's convert("L") drops alpha and takes the ITU-R 601-2 luma.  The     *)
(* hashes are taken at hash size 2: dhash on the image resized to 3 x 2,   *)
(* phash on the low frequencies of the 2 x 2 image's DCT.                  *)
(***************************************************************************)
LumaOf(p) ==
    IF Len(p) < 3 THEN p[1]
    ELSE (p[3] * 19595 + p[2] * 38470 + p[1] * 7471 + 32768) \div 65536

ConvertL(img) ==
    [w |-> img.w, h |-> img.h, ch |-> 1,
     px |-> [i \in 1..Len(img.px) |-> <<LumaOf(img.px[i])>>]]

\* imagehash.dhash: diff = pixels[:, 1:] > pixels[:, :-1]
dhash(img) ==
    LET g == Resample(ConvertL(img), 3, 2)
    IN  [k \in 1..4 |->
            PixelAt(g, ((k - 1) % 2) + 1, (k - 1) \div 2)[1]
                > PixelAt(g, (k - 1) % 2, (k - 1) \div 2)[1]]

\* imagehash.phash: diff = dctlowfreq > median(dctlowfreq); the DCT-II
\* factors 4, 2*sqrt(2), 2*sqrt(2), 2 are scaled by 1000
phash(img) ==
    LET g == Resample(ConvertL(img), 2, 2)
        a == PixelAt(g, 0, 0)[1]
        b == PixelAt(g, 1, 0)[1]
        c == PixelAt(g, 0, 1)[1]
        d == PixelAt(g, 1, 1)[1]
        dct == <<4000 * (a + b + c + d), 2828 * (a - b + c - d),
                 2828 * (a + b - c - d), 2000 * (a - b - c + d)>>
        Below(k) == Cardinality({j \in 1..4 : dct[j] < dct[k]
                                     \/ (dct[j] = dct[k] /\ j < k)})
        lo == CHOOSE k \in 1..4 : Below(k) = 1
        hi == CHOOSE k \in 1..4 : Below(k) = 2
    IN  [k \in 1..4 |-> 2 * dct[k] > dct[lo] + dct[hi]]

\* hash1 - hash2: the Hamming distance of two hashes
Hamming(h1, h2) == Cardinality({k \in DOMAIN h1 : h1[k] # h2[k]})

calculate_phash(raw1, raw2) == Hamming(phash(raw1), phash(raw2))

calculate_dhash(raw1, raw2) == Hamming(dhash(raw1), dhash(raw2))

(***************************************************************************)
(* The inputs: a path names no file (Missing), a file that is no image     *)
(* (Corrupt), or an image file.                                            *)
(***************************************************************************)
Shapes == {s \in (1..MaxArea) \X (1..MaxArea) : s[1] * s[2] <= MaxArea}

ImagesOf(ch, palette) ==
    UNION {{[w |-> s[1], h |-> s[2], ch |-> ch, px |-> p] :
                p \in [1..(s[1] * s[2]) -> palette]} : s \in Shapes}

\* black and white
PaletteBGR == {<<0, 0, 0>>, <<255, 255, 255>>}

\* opaque red and fully transparent black
PaletteBGRA == {<<0, 0, 255, 255>>, <<0, 0, 0, 0>>}

PaletteGray == {<<128>>}

Images == ImagesOf(3, PaletteBGR) \cup ImagesOf(4, PaletteBGRA)
              \cup ImagesOf(1, PaletteGray)

Missing == [exists |-> FALSE, image |-> NoImage]

Corrupt == [exists |-> TRUE, image |-> NoImage]

Files == {Missing, Corrupt} \cup {[exists |-> TRUE, image |-> i] : i \in Images}

NoRegion ==
    [x |-> 0, y |-> 0, w |-> 0, h |-> 0, content |-> NoImage, has_alpha |-> FALSE]

NoSim == [ok |-> FALSE]

NoResults == [none |-> TRUE]

(***************************************************************************)
(* What compare_images prints when show_details is set.                    *)
(***************************************************************************)
\* lines 449-450: image size, content size and anchor of image n
ContentLine(n, img, region) ==
    <<"image", n, <<img.w, img.h>>, <<region.w, region.h>>, <<region.x, region.y>>>>

\* Mutant of Assessment: >= in place of >.
AssessmentInclusive(perceptual) ==
    IF 100 * perceptual >= 95 * One THEN "almost_identical"
    ELSE IF 100 * perceptual >= 90 * One THEN "highly_similar"
    ELSE IF 100 * perceptual >= 80 * One THEN "fairly_similar"
    ELSE IF 100 * perceptual >= 70 * One THEN "somewhat_similar"
    ELSE "very_different"

\* lines 484-493: the assessment of the perceptual similarity
Assessment(perceptual) ==
    IF 100 * perceptual > 95 * One THEN "almost_identical"
    ELSE IF 100 * perceptual > 90 * One THEN "highly_similar"
    ELSE IF 100 * perceptual > 80 * One THEN "fairly_similar"
    ELSE IF 100 * perceptual > 70 * One THEN "somewhat_similar"
    ELSE "very_different"

\* lines 518-531: the overall assessment, which also reads the pHash distance
OverallAssessment(perc_sim, phash_d) ==
    IF 100 * perc_sim > 95 * One /\ phash_d < 5 THEN "almost_identical"
    ELSE IF 100 * perc_sim > 90 * One /\ phash_d < 10 THEN "highly_similar"
    ELSE IF 100 * perc_sim > 80 * One THEN "fairly_similar"
    ELSE IF 100 * perc_sim > 70 * One THEN "somewhat_similar"
    ELSE "very_different"

\* lines 473-533
ResultLines(res) ==
    <<<<"results", res>>,
      <<"assessment", Assessment(res.Perceptual_Similarity)>>,
      <<"overall", OverallAssessment(res.Perceptual_Similarity, res.pHash_distance)>>>>

(***************************************************************************)
(* compare_images(img1_path, img2_path, show_details), one call, step by   *)
(* step.                                                                   *)
(***************************************************************************)
VARIABLES
    file1, file2,       \* what the two paths name
    pc,                 \* the position of the call
    img1, img2,         \* the decoded images
    region1, region2,   \* the content regions
    aligned_sim,        \* the result of calculate_aligned_similarity
    phash_dist, dhash_dist,
    results,            \* the returned dict
    error,              \* the exception raised, "" if none
    reads,              \* how often each file has been opened
    show_details,       \* the show_details argument
    printed,            \* the lines printed so far
    bgr,                \* the two flattened images (bgr1, bgr2)
    calls,              \* the compare_images calls of concurrent workers
    matches,            \* the icon pairs of the batch run
    batch,              \* the locals and the sheet of compare_all_icons_to_excel
    svn,                \* the svn update loop of the main program
    path_call,          \* one call of custom_protocol_to_abs_path
    ratio_call          \* one call of calculate_transparency_ratio

compare_vars == <<file1, file2, pc, img1, img2, region1, region2, aligned_sim,
                  phash_dist, dhash_dist, results, error, reads, show_details,
                  printed, bgr>>

tool_vars == <<calls, matches, batch, svn, path_call, ratio_call>>

vars == <<compare_vars, tool_vars>>

\* The value of a variable the specification at hand does not use.
Unused == [unused |-> TRUE]

\* Nothing but one compare_images call is running.
IdleTools ==
    /\ calls = Unused
    /\ matches = Unused
    /\ batch = Unused
    /\ svn = Unused
    /\ path_call = Unused
    /\ ratio_call = Unused

Init ==
    /\ file1 \in Files
    /\ file2 \in Files
    /\ pc = "start"
    /\ img1 = NoImage
    /\ img2 = NoImage
    /\ region1 = NoRegion
    /\ region2 = NoRegion
    /\ aligned_sim = NoSim
    /\ phash_dist = 0
    /\ dhash_dist = 0
    /\ results = NoResults
    /\ error = ""
    /\ reads = <<0, 0>>
    /\ show_details \in BOOLEAN
    /\ printed = << >>
    /\ bgr = <<NoImage, NoImage>>
    /\ IdleTools

\* Mutant of CheckFiles: only the first path is looked at.
CheckFirstFileOnly ==
    /\ pc = "start"
    /\ IF ~file1.exists
       THEN pc' = "failed" /\ error' = "FileNotFoundError"
       ELSE pc' = "checked" /\ error' = error
    /\ UNCHANGED <<file1, file2, img1, img2, region1, region2, aligned_sim,
                   phash_dist, dhash_dist, results, reads, show_details,
                   printed, bgr>>
    /\ UNCHANGED tool_vars

\* lines 427-430: Path(...).exists() on both paths
CheckFiles ==
    /\ pc = "start"
    /\ IF ~file1.exists \/ ~file2.exists
       THEN pc' = "failed" /\ error' = "FileNotFoundError"
       ELSE pc' = "checked" /\ error' = error
    /\ UNCHANGED <<file1, file2, img1, img2, region1, region2, aligned_sim,
                   phash_dist, dhash_dist, results, reads, show_details,
                   printed, bgr>>
    /\ UNCHANGED tool_vars

\* Mutant of ReadImages: an undecodable file is reported as a missing one.
ReadImagesNotFound ==
    /\ pc = "checked"
    /\ img1' = file1.image
    /\ img2' = file2.image
    /\ reads' = <<reads[1] + 1, reads[2] + 1>>
    /\ IF file1.image = NoImage \/ file2.image = NoImage
       THEN pc' = "failed" /\ error' = "FileNotFoundError"
       ELSE pc' = "read" /\ error' = error
    /\ UNCHANGED <<file1, file2, region1, region2, aligned_sim,
                   phash_dist, dhash_dist, results, show_details, printed, bgr>>
    /\ UNCHANGED tool_vars

\* lines 433-439: cv2.imread on both paths, None when the file is no image
ReadImages ==
    /\ pc = "checked"
    /\ img1' = file1.image
    /\ img2' = file2.image
    /\ reads' = <<reads[1] + 1, reads[2] + 1>>
    /\ IF file1.image = NoImage \/ file2.image = NoImage
       THEN pc' = "failed" /\ error' = "ValueError"
       ELSE pc' = "read" /\ error' = error
    /\ UNCHANGED <<file1, file2, region1, region2, aligned_sim,
                   phash_dist, dhash_dist, results, show_details, printed, bgr>>
    /\ UNCHANGED tool_vars

\* lines 441-450: the two content regions, printed when show_details is set
ExtractContent ==
    /\ pc = "read"
    /\ region1' = extract_content_bbox(img1)
    /\ region2' = extract_content_bbox(img2)
    /\ printed' = IF show_details
                  THEN printed \o <<ContentLine(1, img1, region1'),
                                    ContentLine(2, img2, region2')>>
                  ELSE printed
    /\ pc' = "extracted"
    /\ UNCHANGED <<file1, file2, img1, img2, aligned_sim, phash_dist,
                   dhash_dist, results, error, reads, show_details, bgr>>
    /\ UNCHANGED tool_vars

\* line 453 (with lines 134-135, the flattened images bgr1 and bgr2)
AlignedSimilarity ==
    /\ pc = "extracted"
    /\ bgr' = <<convert_to_white_bg(region1.content, region1.has_alpha),
                convert_to_white_bg(region2.content, region2.has_alpha)>>
    /\ aligned_sim' = calculate_aligned_similarity(region1.content, region2.content,
                                                   region1.has_alpha, region2.has_alpha)
    /\ IF aligned_sim'.ok
       THEN pc' = "aligned" /\ error' = error
       ELSE pc' = "failed" /\ error' = "cv2.error"
    /\ UNCHANGED <<file1, file2, img1, img2, region1, region2,
                   phash_dist, dhash_dist, results, reads, show_details, printed>>
    /\ UNCHANGED tool_vars

\* Mutant of HashDistances: the hashes are taken of the two content regions.
HashDistancesOfContent ==
    /\ pc = "aligned"
    /\ phash_dist' = calculate_phash(region1.content, region2.content)
    /\ dhash_dist' = calculate_dhash(region1.content, region2.content)
    /\ reads' = <<reads[1] + 2, reads[2] + 2>>
    /\ pc' = "hashed"
    /\ UNCHANGED <<file1, file2, img1, img2, region1, region2, aligned_sim,
                   results, error, show_details, printed, bgr>>
    /\ UNCHANGED tool_vars

\* lines 456-457: each of calculate_phash and calculate_dhash opens both files
HashDistances ==
    /\ pc = "aligned"
    /\ phash_dist' = calculate_phash(file1.image, file2.image)
    /\ dhash_dist' = calculate_dhash(file1.image, file2.image)
    /\ reads' = <<reads[1] + 2, reads[2] + 2>>
    /\ pc' = "hashed"
    /\ UNCHANGED <<file1, file2, img1, img2, region1, region2, aligned_sim,
                   results, error, show_details, printed, bgr>>
    /\ UNCHANGED tool_vars

\* Mutant of AssembleResults: with show_details set the report carries the
\* composite cut to two decimals.
AssembleResultsAsPrinted ==
    /\ pc = "hashed"
    /\ results' = [Perceptual_Similarity |->
                       IF show_details
                       THEN (aligned_sim.perceptual_similarity \div 100) * 100
                       ELSE aligned_sim.perceptual_similarity,
                   Pixel_Similarity |-> aligned_sim.pixel_similarity,
                   SSIM |-> aligned_sim.ssim,
                   Histogram_Similarity |-> aligned_sim.histogram_similarity,
                   MSE |-> aligned_sim.mse,
                   pHash_distance |-> phash_dist,
                   dHash_distance |-> dhash_dist,
                   aligned_size |-> aligned_sim.aligned_size,
                   content1_size |-> <<region1.w, region1.h>>,
                   content2_size |-> <<region2.w, region2.h>>]
    /\ printed' = IF show_details
                  THEN printed \o ResultLines(results')
                  ELSE printed
    /\ pc' = "done"
    /\ UNCHANGED <<file1, file2, img1, img2, region1, region2, aligned_sim,
                   phash_dist, dhash_dist, error, reads, show_details, bgr>>
    /\ UNCHANGED tool_vars

\* lines 460-535: the results dict, printed with its assessment when
\* show_details is set, and returned
AssembleResults ==
    /\ pc = "hashed"
    /\ results' = [Perceptual_Similarity |-> aligned_sim.perceptual_similarity,
                   Pixel_Similarity |-> aligned_sim.pixel_similarity,
                   SSIM |-> aligned_sim.ssim,
                   Histogram_Similarity |-> aligned_sim.histogram_similarity,
                   MSE |-> aligned_sim.mse,
                   pHash_distance |-> phash_dist,
                   dHash_distance |-> dhash_dist,
                   aligned_size |-> aligned_sim.aligned_size,
                   content1_size |-> <<region1.w, region1.h>>,
                   content2_size |-> <<region2.w, region2.h>>]
    /\ printed' = IF show_details
                  THEN printed \o ResultLines(results')
                  ELSE printed
    /\ pc' = "done"
    /\ UNCHANGED <<file1, file2, img1, img2, region1, region2, aligned_sim,
                   phash_dist, dhash_dist, error, reads, show_details, bgr>>
    /\ UNCHANGED tool_vars

Next ==
    \/ CheckFiles
    \/ ReadImages
    \/ ExtractContent
    \/ AlignedSimilarity
    \/ HashDistances
    \/ AssembleResults

Spec == Init /\ [][Next]_vars

(***************************************************************************)
(* extract_content_bbox alone, applied to one decoded image.  The images   *)
(* with an alpha channel take their alpha values on both sides of the      *)
(* visibility threshold.                                                   *)
(***************************************************************************)
PaletteAlpha == {<<0, 0, 255, a>> : a \in {0, 10, 11, 255}}

IsolateImages == ImagesOf(3, PaletteBGR) \cup ImagesOf(4, PaletteAlpha)
                     \cup ImagesOf(1, PaletteGray)

InitIsolate ==
    /\ img1 \in IsolateImages
    /\ file1 = [exists |-> TRUE, image |-> img1]
    /\ file2 = file1
    /\ pc = "isolate"
    /\ img2 = NoImage
    /\ region1 = NoRegion
    /\ region2 = NoRegion
    /\ aligned_sim = NoSim
    /\ phash_dist = 0
    /\ dhash_dist = 0
    /\ results = NoResults
    /\ error = ""
    /\ reads = <<1, 0>>
    /\ show_details = FALSE
    /\ printed = << >>
    /\ bgr = <<NoImage, NoImage>>
    /\ IdleTools

Isolate ==
    /\ pc = "isolate"
    /\ region1' = extract_content_bbox(img1)
    /\ pc' = "isolated"
    /\ UNCHANGED <<file1, file2, img1, img2, region2, aligned_sim,
                   phash_dist, dhash_dist, results, error, reads, show_details,
                   printed, bgr>>
    /\ UNCHANGED tool_vars

NextIsolate == Isolate

SpecIsolate == InitIsolate /\ [][NextIsolate]_vars

(***************************************************************************)
(* extract_content_bbox followed by convert_to_white_bg, as                *)
(* calculate_aligned_similarity applies it to one content region.  The     *)
(* images with an alpha channel have three different colour values and     *)
(* alpha values that blend to fractions and to whole numbers.              *)
(***************************************************************************)
PaletteFlatten == {<<0, 100, 255, a>> : a \in {0, 10, 43, 255}}

FlattenImages == ImagesOf(3, PaletteBGR) \cup ImagesOf(4, PaletteFlatten)
                     \cup ImagesOf(1, PaletteGray)

InitFlatten ==
    /\ img1 \in FlattenImages
    /\ file1 = [exists |-> TRUE, image |-> img1]
    /\ file2 = file1
    /\ pc = "isolate"
    /\ img2 = NoImage
    /\ region1 = NoRegion
    /\ region2 = NoRegion
    /\ aligned_sim = NoSim
    /\ phash_dist = 0
    /\ dhash_dist = 0
    /\ results = NoResults
    /\ error = ""
    /\ reads = <<1, 0>>
    /\ show_details = FALSE
    /\ printed = << >>
    /\ bgr = <<NoImage, NoImage>>
    /\ IdleTools

\* line 134: bgr1 = convert_to_white_bg(img1_content, has_alpha1)
Flatten ==
    /\ pc = "isolated"
    /\ bgr' = <<convert_to_white_bg(region1.content, region1.has_alpha), NoImage>>
    /\ pc' = "flattened"
    /\ UNCHANGED <<file1, file2, img1, img2, region1, region2, aligned_sim,
                   phash_dist, dhash_dist, results, error, reads, show_details,
                   printed>>
    /\ UNCHANGED tool_vars

NextFlatten ==
    \/ Isolate
    \/ Flatten

SpecFlatten == InitFlatten /\ [][NextFlatten]_vars

(***************************************************************************)
(* The printing of a report alone (lines 473-533), for reports whose       *)
(* composite lies on, just below and just above each threshold and whose   *)
(* pHash distance lies on both sides of the bounds 5 and 10.               *)
(***************************************************************************)
BandScores ==
    {t * 100 + d : t \in {70, 80, 90, 95}, d \in {-1, 0, 1}} \cup {0, 5000, One}

BandDistances == {0, 4, 5, 9, 10, 64}

\* A report with composite s and pHash distance d: the three similarities are
\* all s, which makes their weighted sum s.
BandReport(s, d) ==
    [Perceptual_Similarity |-> s,
     Pixel_Similarity |-> s,
     SSIM |-> s,
     Histogram_Similarity |-> s,
     MSE |-> [num |-> (One - s) * max_mse, den |-> One],
     pHash_distance |-> d,
     dHash_distance |-> d,
     aligned_size |-> <<1, 1>>,
     content1_size |-> <<1, 1>>,
     content2_size |-> <<1, 1>>]

InitBand ==
    /\ results \in {BandReport(s, d) : s \in BandScores, d \in BandDistances}
    /\ show_details \in BOOLEAN
    /\ pc = "assembled"
    /\ file1 = Corrupt
    /\ file2 = Corrupt
    /\ img1 = NoImage
    /\ img2 = NoImage
    /\ region1 = NoRegion
    /\ region2 = NoRegion
    /\ aligned_sim = NoSim
    /\ phash_dist = results.pHash_distance
    /\ dhash_dist = results.dHash_distance
    /\ error = ""
    /\ reads = <<3, 3>>
    /\ printed = << >>
    /\ bgr = <<NoImage, NoImage>>
    /\ IdleTools

\* lines 473-535: the report is printed when show_details is set, and returned
PrintDetails ==
    /\ pc = "assembled"
    /\ printed' = IF show_details
                  THEN printed \o ResultLines(results)
                  ELSE printed
    /\ pc' = "done"
    /\ UNCHANGED <<file1, file2, img1, img2, region1, region2, aligned_sim,
                   phash_dist, dhash_dist, results, error, reads, show_details,
                   bgr>>
    /\ UNCHANGED tool_vars

NextBand == PrintDetails

SpecBand == InitBand /\ [][NextBand]_vars

(***************************************************************************)
(* Several compare_images calls running in concurrent workers, their steps *)
(* interleaved.  Every call has its own locals; the workers share the      *)
(* files, which no call writes, and the standard output.                   *)
(***************************************************************************)
Workers == {"w1", "w2"}

ConcurrentImages ==
    {[w |-> 1, h |-> 1, ch |-> 3, px |-> <<<<0, 0, 0>>>>],
     [w |-> 1, h |-> 2, ch |-> 3, px |-> <<<<255, 255, 255>>, <<0, 0, 0>>>>],
     [w |-> 2, h |-> 1, ch |-> 4, px |-> <<<<0, 0, 0, 0>>, <<0, 0, 255, 255>>>>],
     [w |-> 1, h |-> 1, ch |-> 1, px |-> <<<<128>>>>]}

ConcurrentFiles ==
    {Missing, Corrupt} \cup {[exists |-> TRUE, image |-> i] : i \in ConcurrentImages}

\* The locals of a call at its entry.
NewCall(f1, f2, sd) ==
    [file1 |-> f1, file2 |-> f2, show_details |-> sd, pc |-> "start",
     img1 |-> NoImage, img2 |-> NoImage,
     region1 |-> NoRegion, region2 |-> NoRegion,
     aligned_sim |-> NoSim, phash_dist |-> 0, dhash_dist |-> 0,
     results |-> NoResults, error |-> ""]

InitConcurrent ==
    /\ calls \in [Workers -> {NewCall(f1, f2, sd) :
                                 f1 \in ConcurrentFiles, f2 \in ConcurrentFiles,
                                 sd \in BOOLEAN}]
    /\ printed = << >>
    /\ file1 = Missing
    /\ file2 = Missing
    /\ pc = "workers"
    /\ img1 = NoImage
    /\ img2 = NoImage
    /\ region1 = NoRegion
    /\ region2 = NoRegion
    /\ aligned_sim = NoSim
    /\ phash_dist = 0
    /\ dhash_dist = 0
    /\ results = NoResults
    /\ error = ""
    /\ reads = <<0, 0>>
    /\ show_details = FALSE
    /\ bgr = <<NoImage, NoImage>>
    /\ matches = Unused
    /\ batch = Unused
    /\ svn = Unused
    /\ path_call = Unused
    /\ ratio_call = Unused

\* What a step of worker w leaves alone: everything but its own call and the
\* standard output.
WorkerFrame ==
    UNCHANGED <<file1, file2, pc, img1, img2, region1, region2, aligned_sim,
                phash_dist, dhash_dist, results, error, reads, show_details,
                bgr, matches, batch, svn, path_call, ratio_call>>

\* lines 427-430
WorkerCheckFiles(w) ==
    LET c == calls[w]
    IN  /\ c.pc = "start"
        /\ calls' = [calls EXCEPT ![w] =
              IF ~c.file1.exists \/ ~c.file2.exists
              THEN [c EXCEPT !.pc = "failed", !.error = "FileNotFoundError"]
              ELSE [c EXCEPT !.pc = "checked"]]
        /\ UNCHANGED printed
        /\ WorkerFrame

\* lines 433-439
WorkerReadImages(w) ==
    LET c == calls[w]
    IN  /\ c.pc = "checked"
        /\ calls' = [calls EXCEPT ![w] =
              IF c.file1.image = NoImage \/ c.file2.image = NoImage
              THEN [c EXCEPT !.img1 = c.file1.image, !.img2 = c.file2.image,
                             !.pc = "failed", !.error = "ValueError"]
              ELSE [c EXCEPT !.img1 = c.file1.image, !.img2 = c.file2.image,
                             !.pc = "read"]]
        /\ UNCHANGED printed
        /\ WorkerFrame

\* lines 441-450
WorkerExtractContent(w) ==
    LET c == calls[w]
        r1 == extract_content_bbox(c.img1)
        r2 == extract_content_bbox(c.img2)
    IN  /\ c.pc = "read"
        /\ calls' = [calls EXCEPT ![w] =
              [c EXCEPT !.region1 = r1, !.region2 = r2, !.pc = "extracted"]]
        /\ printed' = IF c.show_details
                      THEN printed \o <<ContentLine(1, c.img1, r1),
                                        ContentLine(2, c.img2, r2)>>
                      ELSE printed
        /\ WorkerFrame

\* line 453
WorkerAlignedSimilarity(w) ==
    LET c == calls[w]
        sim == calculate_aligned_similarity(c.region1.content, c.region2.content,
                                            c.region1.has_alpha, c.region2.has_alpha)
    IN  /\ c.pc = "extracted"
        /\ calls' = [calls EXCEPT ![w] =
              IF sim.ok
              THEN [c EXCEPT !.aligned_sim = sim, !.pc = "aligned"]
              ELSE [c EXCEPT !.aligned_sim = sim, !.pc = "failed",
                             !.error = "cv2.error"]]
        /\ UNCHANGED printed
        /\ WorkerFrame

\* lines 456-457
WorkerHashDistances(w) ==
    LET c == calls[w]
    IN  /\ c.pc = "aligned"
        /\ calls' = [calls EXCEPT ![w] =
              [c EXCEPT !.phash_dist = calculate_phash(c.file1.image, c.file2.image),
                        !.dhash_dist = calculate_dhash(c.file1.image, c.file2.image),
                        !.pc = "hashed"]]
        /\ UNCHANGED printed
        /\ WorkerFrame

\* The results dict of lines 460-471 for the locals c of a call.
ResultsOfCall(c) ==
    [Perceptual_Similarity |-> c.aligned_sim.perceptual_similarity,
     Pixel_Similarity |-> c.aligned_sim.pixel_similarity,
     SSIM |-> c.aligned_sim.ssim,
     Histogram_Similarity |-> c.aligned_sim.histogram_similarity,
     MSE |-> c.aligned_sim.mse,
     pHash_distance |-> c.phash_dist,
     dHash_distance |-> c.dhash_dist,
     aligned_size |-> c.aligned_sim.aligned_size,
     content1_size |-> <<c.region1.w, c.region1.h>>,
     content2_size |-> <<c.region2.w, c.region2.h>>]

\* Mutant of WorkerAssembleResults: a report another call has finished is
\* handed out again.
WorkerAssembleCached(w) ==
    LET c == calls[w]
        finished == {v \in Workers \ {w} : calls[v].pc = "done"}
        res == IF finished = {}
               THEN ResultsOfCall(c)
               ELSE calls[CHOOSE v \in finished : TRUE].results
    IN  /\ c.pc = "hashed"
        /\ calls' = [calls EXCEPT ![w] = [c EXCEPT !.results = res, !.pc = "done"]]
        /\ printed' = IF c.show_details
                      THEN printed \o ResultLines(res)
                      ELSE printed
        /\ WorkerFrame

\* lines 460-535
WorkerAssembleResults(w) ==
    LET c == calls[w]
        res == ResultsOfCall(c)
    IN  /\ c.pc = "hashed"
        /\ calls' = [calls EXCEPT ![w] = [c EXCEPT !.results = res, !.pc = "done"]]
        /\ printed' = IF c.show_details
                      THEN printed \o ResultLines(res)
                      ELSE printed
        /\ WorkerFrame

NextConcurrent ==
    \E w \in Workers :
        \/ WorkerCheckFiles(w)
        \/ WorkerReadImages(w)
        \/ WorkerExtractContent(w)
        \/ WorkerAlignedSimilarity(w)
        \/ WorkerHashDistances(w)
        \/ WorkerAssembleResults(w)

SpecConcurrent == InitConcurrent /\ [][NextConcurrent]_vars

(***************************************************************************)
(* Properties.                                                             *)
(***************************************************************************)
RegionArea(r) == r.w * r.h

SizeArea(sz) == sz[1] * sz[2]

\* The metrics the report of compare_images(f1, f2) carries, for two image files.
MetricsOf(f1, f2) ==
    LET r1 == extract_content_bbox(f1.image)
        r2 == extract_content_bbox(f2.image)
        sim == calculate_aligned_similarity(r1.content, r2.content,
                                            r1.has_alpha, r2.has_alpha)
    IN  [mse |-> sim.mse, ssim |-> sim.ssim,
         histogram_similarity |-> sim.histogram_similarity,
         perceptual_similarity |-> sim.perceptual_similarity,
         phash |-> calculate_phash(f1.image, f2.image),
         dhash |-> calculate_dhash(f1.image, f2.image)]

\* C1 as stated: the aligned size has the area of the smaller content region,
\* and a region is resampled only if its area is the larger one.
C1_ResampledIsLarger ==
    pc = "done" =>
        /\ SizeArea(results.aligned_size)
              = Min(SizeArea(results.content1_size), SizeArea(results.content2_size))
        /\ aligned_sim.resampled1 => RegionArea(region1) > RegionArea(region2)
        /\ aligned_sim.resampled2 => RegionArea(region2) > RegionArea(region1)

\* C1 amended: the aligned size has exactly the area of the smaller content
\* region; a resampled region never has the smaller area; when the areas differ
\* exactly the larger region is resampled; when they are equal the first region
\* is kept and the second is resampled iff its dimensions differ.
C1_AlignedArea ==
    pc = "done" =>
        LET a1 == RegionArea(region1)
            a2 == RegionArea(region2)
        IN  /\ SizeArea(results.aligned_size)
                  = Min(SizeArea(results.content1_size),
                        SizeArea(results.content2_size))
            /\ aligned_sim.resampled1 <=> a1 > a2
            /\ aligned_sim.resampled2 <=>
                   (a2 > a1 \/ (a1 = a2 /\ <<region1.w, region1.h>>
                                               # <<region2.w, region2.h>>))

C1_Witness ==
    /\ pc = "done"
    /\ RegionArea(region1) = RegionArea(region2)
    /\ aligned_sim.resampled2

\* C2: whenever the size reconciliation has run, the two images it returned
\* have the same width and the same height (and that many pixels each).
C2_SameDimensions ==
    aligned_sim # NoSim =>
        /\ aligned_sim.aligned1.w = aligned_sim.aligned2.w
        /\ aligned_sim.aligned1.h = aligned_sim.aligned2.h
        /\ Len(aligned_sim.aligned1.px) = aligned_sim.aligned1.w * aligned_sim.aligned1.h
        /\ Len(aligned_sim.aligned2.px) = aligned_sim.aligned2.w * aligned_sim.aligned2.h

C2_Witness ==
    /\ pc = "done"
    /\ RegionArea(region1) = RegionArea(region2)
    /\ region1.w # region2.w

\* C3: compare(A, B) and compare(B, A) report the same mse, ssim, histogram
\* similarity, perceptual similarity, pHash distance and dHash distance.
C3_Symmetry ==
    pc = "done" =>
        LET s == MetricsOf(file2, file1)
        IN  /\ results.MSE.num * s.mse.den = s.mse.num * results.MSE.den
            /\ results.SSIM = s.ssim
            /\ results.Histogram_Similarity = s.histogram_similarity
            /\ results.Perceptual_Similarity = s.perceptual_similarity
            /\ results.pHash_distance = s.phash
            /\ results.dHash_distance = s.dhash

\* C4: comparing a 3- or 4-channel image with itself never fails, and reports
\* perceptual similarity 1, ssim 1, mse 0 and both hash distances 0, with
\* neither side resampled.
C4_Identity ==
    (file1 = file2 /\ file1.image.ch \in {3, 4}) =>
        /\ pc # "failed"
        /\ aligned_sim # NoSim =>
               ~aligned_sim.resampled1 /\ ~aligned_sim.resampled2
        /\ pc = "done" =>
               /\ results.Perceptual_Similarity = One
               /\ results.SSIM = One
               /\ results.MSE.num = 0
               /\ results.pHash_distance = 0
               /\ results.dHash_distance = 0

C4_Witness ==
    /\ pc = "done"
    /\ file1 = file2
    /\ file1.image.ch = 4
    /\ region1.w < file1.image.w

IsSolid(img, v) == \A i \in 1..Len(img.px) : \A c \in 1..3 : img.px[i][c] = v

BlackVsWhite ==
    /\ file1.image.ch = 3
    /\ file2.image.ch = 3
    /\ <<file1.image.w, file1.image.h>> = <<file2.image.w, file2.image.h>>
    /\ IsSolid(file1.image, 0)
    /\ IsSolid(file2.image, 255)

\* C5: for a solid black and a solid white opaque image of the same size the
\* report has mse = 255 * 255 * 3 and pixel similarity 0.
C5_BlackWhite ==
    (pc = "done" /\ BlackVsWhite) =>
        /\ results.MSE.num = 255 * 255 * 3 * results.MSE.den
        /\ results.Pixel_Similarity = 0

\* C6 as stated: the perceptual similarity lies in [0, 1].
C6_PerceptualInUnitRange ==
    pc = "done" =>
        /\ 0 <= results.Perceptual_Similarity
        /\ results.Perceptual_Similarity <= One

\* C6 amended: the perceptual similarity is at most 1 and at least -0.3; it is
\* at least 0 whenever ssim is at least 0.
C6_PerceptualRange ==
    pc = "done" =>
        /\ results.Perceptual_Similarity <= One
        /\ 10 * results.Perceptual_Similarity >= -3 * One
        /\ results.SSIM >= 0 => results.Perceptual_Similarity >= 0

C6_Witness ==
    /\ pc = "done"
    /\ results.SSIM < 0
    /\ results.Perceptual_Similarity < 0

\* C7: mse is at least 0 and at most 255 * 255 * 3, and the pixel similarity
\* lies in [0, 1].
C7_PixelRange ==
    pc = "done" =>
        /\ results.MSE.num >= 0
        /\ results.MSE.den > 0
        /\ results.MSE.num <= max_mse * results.MSE.den
        /\ 0 <= results.Pixel_Similarity
        /\ results.Pixel_Similarity <= One

C7_Witness ==
    /\ pc = "done"
    /\ results.MSE.num = 255 * 255 * results.MSE.den
    /\ results.MSE.den > 3

\* C8: the histogram similarity is the mean over the three colour channels of
\* the per-channel histogram correlation with every negative correlation
\* replaced by 0, and so lies in [0, 1].
C8_HistogramClamped ==
    pc = "done" =>
        LET corr(c) == compareHist(aligned_sim.aligned1, aligned_sim.aligned2, c)
            clamped(c) == IF corr(c) < 0 THEN 0 ELSE corr(c)
        IN  /\ results.Histogram_Similarity
                  = (clamped(1) + clamped(2) + clamped(3)) \div 3
            /\ 0 <= results.Histogram_Similarity
            /\ results.Histogram_Similarity <= One

C8_Witness ==
    /\ pc = "done"
    /\ \E c \in 1..3 :
           compareHist(aligned_sim.aligned1, aligned_sim.aligned2, c) < 0
    /\ \E c \in 1..3 :
           compareHist(aligned_sim.aligned1, aligned_sim.aligned2, c) > 0

NoVisiblePixel(img) ==
    /\ img.ch = 4
    /\ \A i \in 1..Len(img.px) : img.px[i][4] <= 10

IsFullImage(r, img) ==
    /\ r.x = 0
    /\ r.y = 0
    /\ r.w = img.w
    /\ r.h = img.h
    /\ r.content = img

\* C9: an image with an alpha channel in which no pixel's alpha exceeds 10
\* yields the full image as its content region, with the transparency flag
\* set and a non-empty pixel buffer.
C9_TransparentFallback ==
    (pc = "isolated" /\ NoVisiblePixel(img1)) =>
        /\ IsFullImage(region1, img1)
        /\ region1.has_alpha
        /\ Len(region1.content.px) = img1.w * img1.h
        /\ Len(region1.content.px) > 0

C9_Witness ==
    /\ pc = "isolated"
    /\ NoVisiblePixel(img1)
    /\ \E i \in 1..Len(img1.px) : img1.px[i][4] = 10
    /\ \E i \in 1..Len(img1.px) : img1.px[i][4] = 0

\* C10: the content region of any image is at least 1 x 1, lies inside the
\* image, and its cropped image has the reported width and height; for an
\* image without an alpha channel it is the full image.
C10_ValidRegion ==
    pc = "isolated" =>
        /\ region1.w >= 1
        /\ region1.h >= 1
        /\ 0 <= region1.x
        /\ region1.x + region1.w <= img1.w
        /\ 0 <= region1.y
        /\ region1.y + region1.h <= img1.h
        /\ region1.content.w = region1.w
        /\ region1.content.h = region1.h
        /\ Len(region1.content.px) = region1.w * region1.h
        /\ region1.content.ch = img1.ch
        /\ img1.ch # 4 => IsFullImage(region1, img1) /\ ~region1.has_alpha

C10_Witness ==
    /\ pc = "isolated"
    /\ img1.ch = 4
    /\ region1.x > 0
    /\ region1.y > 0
    /\ region1.x + region1.w < img1.w + 1
    /\ region1.w * region1.h < img1.w * img1.h


\* The coordinates <<y, x>> of the pixels of a four-channel image whose alpha
\* is strictly greater than 10.
VisibleCoords(img) ==
    {c \in (0 .. img.h - 1) \X (0 .. img.w - 1) : PixelAt(img, c[2], c[1])[4] > 10}

\* C11: a pixel is visible iff its alpha is strictly greater than 10, and the
\* content region is the minimal bounding box of the visible pixels: every
\* visible pixel lies inside it, each of its four border rows and columns
\* holds a visible pixel, and the content is the image cut to that box.
C11_MinimalBoundingBox ==
    (pc = "isolated" /\ img1.ch = 4 /\ VisibleCoords(img1) # {}) =>
        LET V == VisibleCoords(img1)
            r == region1
        IN  /\ \A c \in V : /\ r.x <= c[2] /\ c[2] < r.x + r.w
                            /\ r.y <= c[1] /\ c[1] < r.y + r.h
            /\ \E c \in V : c[2] = r.x
            /\ \E c \in V : c[2] = r.x + r.w - 1
            /\ \E c \in V : c[1] = r.y
            /\ \E c \in V : c[1] = r.y + r.h - 1
            /\ r.content.w = r.w /\ r.content.h = r.h
            /\ \A y \in 0 .. r.h - 1 : \A x \in 0 .. r.w - 1 :
                   PixelAt(r.content, x, y) = PixelAt(img1, r.x + x, r.y + y)

\* A pixel of alpha exactly 10 lies outside the box and a pixel of alpha 11 on it.
C11_Witness ==
    /\ pc = "isolated"
    /\ img1.ch = 4
    /\ \E c \in VisibleCoords(img1) : PixelAt(img1, c[2], c[1])[4] = 11
    /\ \E y \in 0 .. img1.h - 1 : \E x \in 0 .. img1.w - 1 :
           /\ PixelAt(img1, x, y)[4] = 10
           /\ ~(/\ region1.x <= x /\ x < region1.x + region1.w
                /\ region1.y <= y /\ y < region1.y + region1.h)

\* big is small with a margin of fully transparent pixels around it, small
\* placed at offset <<ox, oy>>.
IsPaddingOf(big, small, ox, oy) ==
    /\ big.ch = 4 /\ small.ch = 4
    /\ ox + small.w <= big.w
    /\ oy + small.h <= big.h
    /\ \A y \in 0 .. big.h - 1 : \A x \in 0 .. big.w - 1 :
           IF /\ ox <= x /\ x < ox + small.w
              /\ oy <= y /\ y < oy + small.h
           THEN PixelAt(big, x, y) = PixelAt(small, x - ox, y - oy)
           ELSE PixelAt(big, x, y)[4] = 0

Padded(big, small) ==
    /\ big.ch = 4 /\ small.ch = 4
    /\ VisibleCoords(small) # {}
    /\ \E ox \in 0 .. big.w - 1 : \E oy \in 0 .. big.h - 1 :
           IsPaddingOf(big, small, ox, oy)

\* C12: when one image is the other with a margin of fully transparent pixels
\* added, the two content regions have the same pixels and size, the aligned
\* size is that size, and the report has MSE 0 and composite 1.
C12_MarginInvariance ==
    (pc = "done" /\ (Padded(img1, img2) \/ Padded(img2, img1))) =>
        /\ region1.content = region2.content
        /\ results.content1_size = results.content2_size
        /\ results.aligned_size = results.content2_size
        /\ ~aligned_sim.resampled1 /\ ~aligned_sim.resampled2
        /\ results.MSE.num = 0
        /\ results.Perceptual_Similarity = One

\* The first image really has a margin: it is larger and its content starts
\* away from the corner.
C12_Witness ==
    /\ pc = "done"
    /\ Padded(img1, img2)
    /\ Area(img1) > Area(img2)
    /\ region1.x + region1.y > 0

\* C13: when either path names no existing file the comparison fails with
\* FileNotFoundError, whatever the other path holds, before any file is read
\* or decoded, and no report is produced.
C13_MissingFile ==
    (~file1.exists \/ ~file2.exists) =>
        /\ pc \in {"start", "failed"}
        /\ pc = "failed" => error = "FileNotFoundError"
        /\ results = NoResults
        /\ reads = <<0, 0>>
        /\ img1 = NoImage /\ img2 = NoImage

\* The failure has happened, with the second path missing and the first an
\* existing file that is no image.
C13_Witness ==
    /\ pc = "failed"
    /\ file1 = Corrupt
    /\ file2 = Missing

\* C14: when both files exist and one cannot be decoded the comparison fails
\* with ValueError, which is not the error of a missing file, before any
\* content region or metric is computed, and no report is produced.
C14_DecodeError ==
    (file1.exists /\ file2.exists /\ (file1.image = NoImage \/ file2.image = NoImage)) =>
        /\ pc \in {"start", "checked", "failed"}
        /\ pc = "failed" => (error = "ValueError" /\ error # "FileNotFoundError")
        /\ region1 = NoRegion /\ region2 = NoRegion
        /\ aligned_sim = NoSim
        /\ phash_dist = 0 /\ dhash_dist = 0
        /\ results = NoResults

\* The failure has happened, with the first file an image and the second not.
C14_Witness ==
    /\ pc = "failed"
    /\ file1.exists /\ file1.image # NoImage
    /\ file2 = Corrupt
    /\ img1 # NoImage

\* C15 as stated: when the two content regions have the same pixel area
\* neither image is resampled, also when their widths and heights differ.
C15_NoResampleOnEqualArea ==
    (aligned_sim # NoSim /\ Area(bgr[1]) = Area(bgr[2])) =>
        /\ ~aligned_sim.resampled1
        /\ ~aligned_sim.resampled2
        /\ aligned_sim.aligned1 = bgr[1]
        /\ aligned_sim.aligned2 = bgr[2]

\* C15 amended: when the two content regions have the same pixel area the
\* first image is never resampled, and the second is resampled exactly when
\* its width and height differ from the first's, to the first's dimensions.
C15_EqualAreaKeepsFirst ==
    (aligned_sim # NoSim /\ Area(bgr[1]) = Area(bgr[2])) =>
        /\ ~aligned_sim.resampled1
        /\ aligned_sim.aligned1 = bgr[1]
        /\ aligned_sim.resampled2
              <=> (bgr[2].w # bgr[1].w \/ bgr[2].h # bgr[1].h)
        /\ ~aligned_sim.resampled2 => aligned_sim.aligned2 = bgr[2]
        /\ aligned_sim.aligned2.w = bgr[1].w
        /\ aligned_sim.aligned2.h = bgr[1].h

\* Equal areas with different dimensions: the second image has been resampled.
C15_Witness ==
    /\ aligned_sim # NoSim
    /\ Area(bgr[1]) = Area(bgr[2])
    /\ bgr[1].w # bgr[2].w
    /\ aligned_sim.resampled2
    /\ aligned_sim.aligned2 # bgr[2]

\* C16: the image whose content has the smaller pixel area is handed on as the
\* very same image, and an image is only ever resampled to a size with no
\* more pixels than it has.
C16_SmallerUntouched ==
    aligned_sim # NoSim =>
        /\ Area(bgr[1]) < Area(bgr[2]) =>
               (~aligned_sim.resampled1 /\ aligned_sim.aligned1 = bgr[1])
        /\ Area(bgr[2]) < Area(bgr[1]) =>
               (~aligned_sim.resampled2 /\ aligned_sim.aligned2 = bgr[2])
        /\ aligned_sim.resampled1 =>
               Area(aligned_sim.aligned1) <= Area(bgr[1])
        /\ aligned_sim.resampled2 =>
               Area(aligned_sim.aligned2) <= Area(bgr[2])
        /\ ~aligned_sim.resampled1 => aligned_sim.aligned1 = bgr[1]
        /\ ~aligned_sim.resampled2 => aligned_sim.aligned2 = bgr[2]

\* The second image is strictly smaller and the first has been resampled to
\* strictly fewer pixels.
C16_Witness ==
    /\ aligned_sim # NoSim
    /\ Area(bgr[2]) < Area(bgr[1])
    /\ aligned_sim.resampled1
    /\ Area(aligned_sim.aligned1) < Area(bgr[1])
    /\ aligned_sim.aligned2 = bgr[2]

\* C17: for four-channel, three-channel and single-channel inputs alike, both
\* aligned images have three colour channels.
C17_ThreeChannels ==
    aligned_sim # NoSim =>
        /\ aligned_sim.aligned1.ch = 3
        /\ aligned_sim.aligned2.ch = 3

C19_CompositeOfReport ==
    pc = "done" =>
        results.Perceptual_Similarity
            = (5 * results.SSIM + 3 * results.Pixel_Similarity
                 + 2 * results.Histogram_Similarity) \div 10

\* A report whose three components are pairwise different.
C19_Witness ==
    /\ pc = "done"
    /\ results.SSIM # results.Pixel_Similarity
    /\ results.SSIM # results.Histogram_Similarity
    /\ results.Pixel_Similarity # results.Histogram_Similarity
    /\ results.Perceptual_Similarity # results.SSIM

\* The error compare_images(f1, f2) ends with, "" when it returns a report.
ErrorOf(f1, f2) ==
    IF ~f1.exists \/ ~f2.exists THEN "FileNotFoundError"
    ELSE IF f1.image = NoImage \/ f2.image = NoImage THEN "ValueError"
    ELSE LET r1 == extract_content_bbox(f1.image)
             r2 == extract_content_bbox(f2.image)
         IN  IF calculate_aligned_similarity(r1.content, r2.content,
                                             r1.has_alpha, r2.has_alpha).ok
             THEN ""
             ELSE "cv2.error"

\* The report compare_images(f1, f2) returns for two image files.
ReportOf(f1, f2) ==
    LET r1 == extract_content_bbox(f1.image)
        r2 == extract_content_bbox(f2.image)
        sim == calculate_aligned_similarity(r1.content, r2.content,
                                            r1.has_alpha, r2.has_alpha)
    IN  [Perceptual_Similarity |-> sim.perceptual_similarity,
         Pixel_Similarity |-> sim.pixel_similarity,
         SSIM |-> sim.ssim,
         Histogram_Similarity |-> sim.histogram_similarity,
         MSE |-> sim.mse,
         pHash_distance |-> calculate_phash(f1.image, f2.image),
         dHash_distance |-> calculate_dhash(f1.image, f2.image),
         aligned_size |-> sim.aligned_size,
         content1_size |-> <<r1.w, r1.h>>,
         content2_size |-> <<r2.w, r2.h>>]

\* C20: the report and the error depend on the two files alone, the same with
\* show_details set and unset; show_details only decides whether anything is
\* printed.
C20_VerboseOnlyPrints ==
    /\ pc = "done" => (ErrorOf(file1, file2) = "" /\ results = ReportOf(file1, file2))
    /\ pc = "failed" => (error = ErrorOf(file1, file2) /\ error # ""
                           /\ results = NoResults)
    /\ ~show_details => printed = << >>

\* A report has been returned with show_details set and lines printed.
C20_Witness ==
    /\ pc = "done"
    /\ show_details
    /\ printed # << >>
    /\ results.Perceptual_Similarity % 100 # 0

\* The band of a composite score by the strict thresholds 0.95, 0.90, 0.80
\* and 0.70.
ScoreBand(s) ==
    CASE 100 * s > 95 * One -> "almost_identical"
      [] 100 * s <= 95 * One /\ 100 * s > 90 * One -> "highly_similar"
      [] 100 * s <= 90 * One /\ 100 * s > 80 * One -> "fairly_similar"
      [] 100 * s <= 80 * One /\ 100 * s > 70 * One -> "somewhat_similar"
      [] 100 * s <= 70 * One -> "very_different"

\* The band that line n of the printed output carries.
PrintedBand(n) == printed[n][2]

C22_ReadOnce ==
    /\ reads[1] <= 1
    /\ reads[2] <= 1
    /\ aligned_sim # NoSim => reads = <<1, 1>>
    /\ pc = "done" => reads = <<1, 1>>

\* C24: the two hash distances of a call are the distances of the hashes of
\* the two files' own images, whatever the content regions, the flattened
\* images and the aligned size of the call are.
C24_HashesOfRawImages ==
    /\ pc \in {"hashed", "done"} =>
           /\ phash_dist = Hamming(phash(file1.image), phash(file2.image))
           /\ dhash_dist = Hamming(dhash(file1.image), dhash(file2.image))
    /\ pc = "done" =>
           /\ results.pHash_distance = Hamming(phash(file1.image), phash(file2.image))
           /\ results.dHash_distance = Hamming(dhash(file1.image), dhash(file2.image))

\* A report whose first image was cropped, flattened and resampled, and whose
\* hash distances differ from those of the content regions and of the
\* aligned images.
C24_Witness ==
    /\ pc = "done"
    /\ region1.content # file1.image
    /\ bgr[1] # region1.content
    /\ aligned_sim.resampled1
    /\ results.pHash_distance # calculate_phash(region1.content, region2.content)
    /\ results.pHash_distance
          # calculate_phash(aligned_sim.aligned1, aligned_sim.aligned2)

\* C23: in every interleaving of concurrent calls each call ends with the
\* report, or the error, that compare_images gives for its two files alone.
C23_CallsIndependent ==
    \A w \in Workers :
        LET c == calls[w]
        IN  /\ c.pc = "done" =>
                /\ ErrorOf(c.file1, c.file2) = ""
                /\ c.results = ReportOf(c.file1, c.file2)
            /\ c.pc = "failed" =>
                /\ c.error = ErrorOf(c.file1, c.file2)
                /\ c.error # ""
                /\ c.results = NoResults

\* Two calls on different pairs have both returned reports, and the two
\* reports differ.
C23_Witness ==
    /\ calls["w1"].pc = "done"
    /\ calls["w2"].pc = "done"
    /\ <<calls["w1"].file1, calls["w1"].file2>> # <<calls["w2"].file1, calls["w2"].file2>>
    /\ calls["w1"].results # calls["w2"].results
    /\ calls["w1"].show_details /\ calls["w2"].show_details
    /\ printed[3][1] = "image"

(***************************************************************************)
(* compare_all_icons_to_excel of batch_compare_excel.py: the loop over the *)
(* icon pairs (lines 343-461) and the saving of the workbook (lines        *)
(* 463-475).  A pair is the two files its big and small path name; a cell  *)
(* of the sheet is a record of its kind and value.                         *)
(***************************************************************************)
MaxPairs == 3

BatchImages ==
    {[w |-> 1, h |-> 1, ch |-> 3, px |-> <<<<0, 0, 0>>>>],
     [w |-> 1, h |-> 2, ch |-> 3, px |-> <<<<255, 255, 255>>, <<0, 0, 0>>>>]}

BatchFiles ==
    {Missing, Corrupt} \cup {[exists |-> TRUE, image |-> i] : i \in BatchImages}

Pairs == {[big |-> b, small |-> s] : b \in BatchFiles, s \in BatchFiles}

MatchLists == UNION {[1..n -> Pairs] : n \in 0..MaxPairs}

\* compare_images(big_path, small_path, show_details=False) as the loop sees
\* it: a report, or an exception.
compare_images(f1, f2) ==
    IF ErrorOf(f1, f2) = ""
    THEN [raised |-> "", comparison |-> ReportOf(f1, f2)]
    ELSE [raised |-> ErrorOf(f1, f2), comparison |-> NoResults]

\* A local variable no assignment has reached yet.
Unbound == [kind |-> "unbound", v |-> 0]

Bound(value) == [kind |-> "float", v |-> value]

EmptyCell == [kind |-> "empty", v |-> 0]

ErrorCell == [kind |-> "ERROR", v |-> 0]

\* The cell holding field k ("id", "name", "big" or "small") of pair i.
TextCell(k, i) == [kind |-> k, v |-> i]

\* The cell holding a similarity formatted with four decimals.
SimCell(x) == [kind |-> "sim", v |-> x.v]

EmptyRow == [col \in 1..9 |-> EmptyCell]

\* lines 396-402: the cells the try block writes before the images
TextCells(row, i, perc_sim, ssim_score, pixel_sim) ==
    [row EXCEPT ![1] = TextCell("id", i), ![2] = TextCell("name", i),
                ![3] = TextCell("big", i), ![4] = TextCell("small", i),
                ![7] = SimCell(perc_sim), ![8] = SimCell(ssim_score),
                ![9] = SimCell(pixel_sim)]

\* lines 396-399: the cells written when line 400 raises
PartialCells(row, i) ==
    [row EXCEPT ![1] = TextCell("id", i), ![2] = TextCell("name", i),
                ![3] = TextCell("big", i), ![4] = TextCell("small", i)]

\* Mutant of ErrorCells: the except block writes the names only.
ErrorCellsUnmarked(row, i) ==
    [row EXCEPT ![1] = TextCell("name", i), ![2] = TextCell("big", i),
                ![3] = TextCell("small", i)]

\* lines 451-456: the cells the except block writes
ErrorCells(row, i) ==
    [row EXCEPT ![1] = TextCell("name", i), ![2] = TextCell("big", i),
                ![3] = TextCell("small", i), ![6] = ErrorCell,
                ![7] = ErrorCell, ![8] = ErrorCell]

InitBatch ==
    /\ matches = << >>
    /\ batch = [pc |-> "start", idx |-> 1, current_row |-> 2,
                success_count |-> 0, error_count |-> 0, skip_count |-> 0,
                perc_sim |-> Unbound, ssim_score |-> Unbound,
                pixel_sim |-> Unbound, rows |-> << >>, saved |-> FALSE,
                outcomes |-> << >>]
    /\ file1 = Missing
    /\ file2 = Missing
    /\ pc = "batch"
    /\ img1 = NoImage
    /\ img2 = NoImage
    /\ region1 = NoRegion
    /\ region2 = NoRegion
    /\ aligned_sim = NoSim
    /\ phash_dist = 0
    /\ dhash_dist = 0
    /\ results = NoResults
    /\ error = ""
    /\ reads = <<0, 0>>
    /\ show_details = FALSE
    /\ printed = << >>
    /\ bgr = <<NoImage, NoImage>>
    /\ calls = Unused
    /\ svn = Unused
    /\ path_call = Unused
    /\ ratio_call = Unused

BatchFrame == UNCHANGED <<compare_vars, calls, matches, svn, path_call, ratio_call>>

\* line 294: matches = parse_config_file(config_file).  The files stay as
\* they are during the run, so what compare_images does on each pair is
\* settled here: outcomes[i] is what line 387 gives for pair i.
ParseConfig ==
    /\ batch.pc = "start"
    /\ matches' \in MatchLists
    /\ batch' = [batch EXCEPT
          !.pc = "parsed",
          !.outcomes = [i \in 1 .. Len(matches') |->
                           compare_images(matches'[i].big, matches'[i].small)]]
    /\ UNCHANGED <<compare_vars, calls, svn, path_call, ratio_call>>

\* lines 297-299: no pair in the configuration file, the function returns
ReturnEmpty ==
    /\ batch.pc = "parsed"
    /\ matches = << >>
    /\ batch' = [batch EXCEPT !.pc = "returned"]
    /\ BatchFrame

\* lines 301-346: the workbook and the counters are set up
StartLoop ==
    /\ batch.pc = "parsed"
    /\ matches # << >>
    /\ batch' = [batch EXCEPT !.pc = "loop"]
    /\ BatchFrame

\* lines 348-461: one pass of the loop body
ProcessPair ==
    /\ batch.pc = "loop"
    /\ batch.idx <= Len(matches)
    /\ LET i == batch.idx
           pair == matches[i]
           \* lines 370-382
           skips == (IF ~pair.big.exists THEN 1 ELSE 0)
                      + (IF ~pair.small.exists THEN 1 ELSE 0)
           nSkill_Check == skips > 0
           \* lines 386-392
           outcome == IF nSkill_Check
                      THEN [raised |-> "", comparison |-> NoResults]
                      ELSE batch.outcomes[i]
           compared == ~nSkill_Check /\ outcome.raised = ""
           perc_sim == IF compared
                       THEN Bound(outcome.comparison.Perceptual_Similarity)
                       ELSE batch.perc_sim
           ssim_score == IF compared
                         THEN Bound(outcome.comparison.SSIM)
                         ELSE batch.ssim_score
           pixel_sim == IF compared
                        THEN Bound(outcome.comparison.Pixel_Similarity)
                        ELSE batch.pixel_sim
       IN  IF outcome.raised # ""
           THEN \* line 387 raises: lines 448-459
                batch' = [batch EXCEPT
                    !.idx = i + 1,
                    !.skip_count = @ + skips,
                    !.current_row = @ + 1,
                    !.error_count = @ + 1,
                    !.rows = Append(@, ErrorCells(EmptyRow, i))]
           ELSE IF perc_sim = Unbound
           THEN \* line 400 raises UnboundLocalError: lines 448-459
                batch' = [batch EXCEPT
                    !.idx = i + 1,
                    !.skip_count = @ + skips,
                    !.current_row = @ + 1,
                    !.error_count = @ + 1,
                    !.rows = Append(@, ErrorCells(PartialCells(EmptyRow, i), i))]
           ELSE \* lines 396-446
                batch' = [batch EXCEPT
                    !.idx = i + 1,
                    !.skip_count = @ + skips,
                    !.perc_sim = perc_sim,
                    !.ssim_score = ssim_score,
                    !.pixel_sim = pixel_sim,
                    !.current_row = @ + 1,
                    !.success_count = @ + 1,
                    !.rows = Append(@, TextCells(EmptyRow, i, perc_sim,
                                                 ssim_score, pixel_sim))]
    /\ BatchFrame

\* lines 463-475: wb.save(output_path)
SaveWorkbook ==
    /\ batch.pc = "loop"
    /\ batch.idx > Len(matches)
    /\ batch' = [batch EXCEPT !.pc = "saved", !.saved = TRUE]
    /\ BatchFrame

NextBatch ==
    \/ ParseConfig
    \/ ReturnEmpty
    \/ StartLoop
    \/ ProcessPair
    \/ SaveWorkbook

SpecBatch == InitBatch /\ [][NextBatch]_vars

\* The loop runs on: a for loop over a list has no suspension point.
SpecBatchLive ==
    SpecBatch /\ WF_vars(StartLoop) /\ WF_vars(ProcessPair) /\ WF_vars(SaveWorkbook)

\* The pairs the loop has been through.
Processed == 1 .. (batch.idx - 1)

\* Both files of pair i exist and compare_images raises on them.
CompareRaises(i) ==
    /\ matches[i].big.exists
    /\ matches[i].small.exists
    /\ ErrorOf(matches[i].big, matches[i].small) # ""

\* The big or the small file of pair i does not exist.
FileMissing(i) == ~matches[i].big.exists \/ ~matches[i].small.exists

\* The rows of the sheet written for pair i.
RowsOf(i) == {r \in 1 .. Len(batch.rows) : batch.rows[r][1].v = i}

IsErrorRow(row) == row[6] = ErrorCell /\ row[7] = ErrorCell /\ row[8] = ErrorCell

HasSimilarity(row) == \E col \in 7..9 : row[col].kind = "sim"

ErrorRowsIsolated ==
    batch.pc \in {"loop", "saved"} =>
        /\ batch.current_row = Len(batch.rows) + 2
        /\ \A i \in Processed :
               CompareRaises(i) =>
                   /\ Cardinality(RowsOf(i)) = 1
                   /\ \A r \in RowsOf(i) : /\ IsErrorRow(batch.rows[r])
                                           /\ ~HasSimilarity(batch.rows[r])

RaisingPairAtHand ==
    /\ batch.pc = "loop"
    /\ batch.idx <= Len(matches)
    /\ CompareRaises(batch.idx)

ErrorStepCounts ==
    RaisingPairAtHand =>
        /\ batch'.pc = "loop"
        /\ batch'.idx = batch.idx + 1
        /\ batch'.error_count = batch.error_count + 1
        /\ batch'.success_count = batch.success_count
        /\ batch'.skip_count = batch.skip_count
        /\ Len(batch'.rows) = Len(batch.rows) + 1

AllProcessedAndSaved ==
    /\ batch.pc = "saved"
    /\ batch.saved
    /\ batch.idx = Len(matches) + 1

\* C25: a pair on which compare_images raises gets exactly one row, an ERROR
\* row; the step that handles it adds one to error_count and to nothing else
\* and goes on to the next pair; and from there the loop always reaches the
\* end, with every pair processed and the workbook saved.
C25_FailureIsolated ==
    /\ []ErrorRowsIsolated
    /\ [][ErrorStepCounts]_vars
    /\ RaisingPairAtHand ~> AllProcessedAndSaved

\* The workbook is saved after a pair on which compare_images raised and a
\* later pair that was compared.
C25_Witness ==
    /\ batch.pc = "saved"
    /\ \E i \in 1 .. Len(matches) : \E j \in 1 .. Len(matches) :
           /\ i < j
           /\ CompareRaises(i)
           /\ \E r \in RowsOf(j) : HasSimilarity(batch.rows[r])
           /\ batch.error_count = 1
           /\ batch.success_count = Len(matches) - 1

\* C26: a pair with a missing file is never counted as a success and no row
\* of it carries similarity values.
C26_SkippedPairs ==
    batch.pc \in {"loop", "saved"} =>
        /\ \A i \in Processed :
               FileMissing(i) => \A r \in RowsOf(i) : ~HasSimilarity(batch.rows[r])
        /\ batch.success_count <= Cardinality({i \in Processed : ~FileMissing(i)})

\* C27: after the loop the three counters add up to the number of pairs and
\* the number of rows written is success_count + error_count.
C27_CountersPartition ==
    batch.pc = "saved" =>
        /\ batch.success_count + batch.error_count + batch.skip_count = Len(matches)
        /\ batch.current_row - 2 = batch.success_count + batch.error_count

(***************************************************************************)
(* svn_update_dir and the loop that calls it for each target directory     *)
(* (SvnUpdate.py lines 112-114, batch_compare_excel.py lines 715-721).  A  *)
(* directory is what happens when it is updated: the path is missing, is   *)
(* no directory, svn returns 0, svn returns another code, or svn cannot be *)
(* started.                                                                *)
(***************************************************************************)
MaxDirs == 3

DirKinds == {"missing", "notdir", "ok", "fail", "oserror"}

DirLists == UNION {[1..n -> DirKinds] : n \in 1..MaxDirs}

\* lines 26-53: the try block; exc is the exception it ends with, "" if none
svn_update_try(dir, ignore_error) ==
    IF dir = "oserror" THEN [ret |-> FALSE, exc |-> "OSError"]
    ELSE IF dir = "ok" THEN [ret |-> TRUE, exc |-> ""]
    ELSE IF ignore_error THEN [ret |-> FALSE, exc |-> ""]
    ELSE [ret |-> FALSE, exc |-> "CalledProcessError"]

\* lines 5-60
svn_update_dir(dir, ignore_error) ==
    IF dir \in {"missing", "notdir"} THEN [ret |-> FALSE, exc |-> ""]
    ELSE LET t == svn_update_try(dir, ignore_error)
         IN  IF t.exc = "CalledProcessError" THEN [ret |-> FALSE, exc |-> ""]
             ELSE IF t.exc # "" THEN [ret |-> FALSE, exc |-> ""]
             ELSE t

InitSvn ==
    /\ svn \in {[dirs |-> d, ignore_error |-> ig, i |-> 1, returns |-> << >>,
                 pc |-> "updating"] : d \in DirLists, ig \in BOOLEAN}
    /\ file1 = Missing
    /\ file2 = Missing
    /\ pc = "svn"
    /\ img1 = NoImage
    /\ img2 = NoImage
    /\ region1 = NoRegion
    /\ region2 = NoRegion
    /\ aligned_sim = NoSim
    /\ phash_dist = 0
    /\ dhash_dist = 0
    /\ results = NoResults
    /\ error = ""
    /\ reads = <<0, 0>>
    /\ show_details = FALSE
    /\ printed = << >>
    /\ bgr = <<NoImage, NoImage>>
    /\ calls = Unused
    /\ matches = Unused
    /\ batch = Unused
    /\ path_call = Unused
    /\ ratio_call = Unused

SvnFrame == UNCHANGED <<compare_vars, calls, matches, batch, path_call, ratio_call>>

\* one pass of the for loop: svn_update_dir(full_path, IGNORE_ERROR); an
\* exception leaves the loop and ends the run
UpdateDir ==
    /\ svn.pc = "updating"
    /\ svn.i <= Len(svn.dirs)
    /\ LET r == svn_update_dir(svn.dirs[svn.i], svn.ignore_error)
       IN  svn' = IF r.exc # ""
                  THEN [svn EXCEPT !.i = @ + 1, !.pc = "terminated"]
                  ELSE [svn EXCEPT !.i = @ + 1, !.returns = Append(@, r.ret)]
    /\ SvnFrame

\* the loop is through and the run goes on
UpdatesDone ==
    /\ svn.pc = "updating"
    /\ svn.i > Len(svn.dirs)
    /\ svn' = [svn EXCEPT !.pc = "updated"]
    /\ SvnFrame

NextSvn ==
    \/ UpdateDir
    \/ UpdatesDone

SpecSvn == InitSvn /\ [][NextSvn]_vars

\* C28: with ignore_error = False a failed svn update raises out of
\* svn_update_dir and ends the run, so no later directory is updated; with
\* ignore_error = True the function returns False and the run goes on.
C28_FailureTerminates ==
    \A k \in 1 .. (svn.i - 1) :
        svn.dirs[k] = "fail" =>
            IF svn.ignore_error
            THEN /\ svn.pc # "terminated"
                 /\ svn.returns[k] = FALSE
            ELSE /\ svn.pc = "terminated"
                 /\ svn.i = k + 1

(***************************************************************************)
(* custom_protocol_to_abs_path (batch_compare_excel.py lines 232-279).  A  *)
(* string is a sequence of tokens: the prefixes the function looks for,    *)
(* one prefix it does not know, a blank, the two separators and a name.    *)
(* A Python value is a record of its type and, for a string, its tokens.   *)
(***************************************************************************)
MaxTokens == 3

Tokens == {"ArtSource://", "ArtBase://", "Assets/_Game/Resource/", "http://",
           " ", "/", "\\", "a"}

Strings == UNION {[1..n -> Tokens] : n \in 0..MaxTokens}

Str(s) == [kind |-> "str", s |-> s]

None == [kind |-> "None", s |-> << >>]

NotAString == [kind |-> "int", s |-> << >>]

PathValues == {Str(s) : s \in Strings} \cup {None, NotAString}

RootPaths == {<<"/", "root">>, <<"/", "root", "/">>}

\* len(s.strip()) == 0
IsBlank(s) == \A i \in 1..Len(s) : s[i] = " "

startswith(s, prefix) == Len(s) >= 1 /\ s[1] = prefix

\* s.replace('\\', '/')
ReplaceBackslash(s) == [i \in 1..Len(s) |-> IF s[i] = "\\" THEN "/" ELSE s[i]]

\* s.replace(prefix, '')
RemoveAll(s, prefix) == SelectSeq(s, LAMBDA t : t # prefix)

Seps(os) == IF os = "nt" THEN {"/", "\\"} ELSE {"/"}

\* os.path.join of two parts: a rooted second part replaces the first
path_join(os, a, b) ==
    IF Len(b) >= 1 /\ b[1] \in Seps(os) THEN b
    ELSE IF a = << >> \/ a[Len(a)] \in Seps(os) THEN a \o b
    ELSE a \o <<IF os = "nt" THEN "\\" ELSE "/">> \o b

PROTOCOL_MAP == [p \in {"ArtSource://", "ArtBase://"} |->
                    IF p = "ArtSource://" THEN "ArtSource" ELSE "ArtBase"]

RELATIVE_ROOT_PREFIX == "Assets/_Game/Resource/"

custom_protocol_to_abs_path(os, root_path, protocol_path) ==
    IF protocol_path.kind # "str" \/ IsBlank(protocol_path.s)
    THEN protocol_path
    ELSE IF protocol_path.s[1] \in DOMAIN PROTOCOL_MAP
    THEN LET sub_dir == PROTOCOL_MAP[protocol_path.s[1]]
             relative_path == Tail(protocol_path.s)
         IN  IF IsBlank(relative_path)
             THEN protocol_path
             ELSE Str(ReplaceBackslash(
                     path_join(os, path_join(os, root_path, <<sub_dir>>),
                               relative_path)))
    ELSE IF startswith(protocol_path.s, RELATIVE_ROOT_PREFIX)
    THEN Str(ReplaceBackslash(
            path_join(os, root_path,
                      RemoveAll(protocol_path.s, RELATIVE_ROOT_PREFIX))))
    ELSE protocol_path

InitPath ==
    /\ path_call \in {[os |-> o, root_path |-> r, protocol_path |-> p,
                       pc |-> "called", result |-> None] :
                         o \in {"posix", "nt"}, r \in RootPaths, p \in PathValues}
    /\ file1 = Missing
    /\ file2 = Missing
    /\ pc = "path"
    /\ img1 = NoImage
    /\ img2 = NoImage
    /\ region1 = NoRegion
    /\ region2 = NoRegion
    /\ aligned_sim = NoSim
    /\ phash_dist = 0
    /\ dhash_dist = 0
    /\ results = NoResults
    /\ error = ""
    /\ reads = <<0, 0>>
    /\ show_details = FALSE
    /\ printed = << >>
    /\ bgr = <<NoImage, NoImage>>
    /\ calls = Unused
    /\ matches = Unused
    /\ batch = Unused
    /\ svn = Unused
    /\ ratio_call = Unused

ConvertPath ==
    /\ path_call.pc = "called"
    /\ path_call' = [path_call EXCEPT
          !.pc = "returned",
          !.result = custom_protocol_to_abs_path(path_call.os, path_call.root_path,
                                                 path_call.protocol_path)]
    /\ UNCHANGED <<compare_vars, calls, matches, batch, svn, ratio_call>>

NextPath == ConvertPath

SpecPath == InitPath /\ [][NextPath]_vars

\* the cases in which the path is no path the function can convert
InvalidPath(p) ==
    \/ p.kind # "str"
    \/ IsBlank(p.s)
    \/ /\ p.s[1] \in DOMAIN PROTOCOL_MAP
       /\ IsBlank(Tail(p.s))
    \/ /\ p.s[1] \notin DOMAIN PROTOCOL_MAP
       /\ p.s[1] # RELATIVE_ROOT_PREFIX

UnderRoot(value, root_path) ==
    /\ value.kind = "str"
    /\ Len(value.s) >= Len(root_path)
    /\ SubSeq(value.s, 1, Len(root_path)) = root_path

\* C29: custom_protocol_to_abs_path returns None for an empty path, a value
\* that is no string, a path with nothing after the protocol prefix and a
\* path of an unsupported protocol; a returned value is always None or a
\* path under root_path.
C29_NoneOrUnderRoot ==
    path_call.pc = "returned" =>
        /\ InvalidPath(path_call.protocol_path) => path_call.result = None
        /\ \/ path_call.result = None
           \/ UnderRoot(path_call.result, path_call.root_path)

(***************************************************************************)
(* calculate_transparency_ratio, in its two versions                      *)
(* (batch_compare_excel.py lines 477-527, ImagePIL.py lines 4-51), called  *)
(* twice for one file as in ImagePIL.py lines 58-60: first counting the    *)
(* fully transparent pixels, then the half transparent ones too.  A file   *)
(* is whether it exists, its suffix, and the alpha channel Image.open and  *)
(* convert("RGBA") give, or that it cannot be opened.  A ratio is kept in  *)
(* hundredths of a percent, the two decimals round(ratio, 2) leaves.       *)
(***************************************************************************)
MaxPixels == 3

AlphaValues == {0, 128, 255}

AlphaChannels == UNION {[1..n -> AlphaValues] : n \in 1..MaxPixels}

Suffixes == {".png", ".PNG", ".jpg", ".txt"}

valid_suffix == {".png", ".webp", ".gif", ".tga"}

lower(suffix) == IF suffix = ".PNG" THEN ".png" ELSE suffix

RatioFiles ==
    {[exists |-> e, suffix |-> s, opens |-> FALSE, alpha |-> << >>] :
        e \in BOOLEAN, s \in Suffixes}
    \cup {[exists |-> TRUE, suffix |-> s, opens |-> TRUE, alpha |-> a] :
            s \in Suffixes, a \in AlphaChannels}

\* round((transparent_pixels / total_pixels) * 100, 2), in hundredths
RoundedRatio(transparent_pixels, total_pixels) ==
    (2 * 10000 * transparent_pixels + total_pixels) \div (2 * total_pixels)

CountBelow(a_channel, limit) ==
    Cardinality({i \in 1..Len(a_channel) : a_channel[i] < limit})

\* lines 497-527 of batch_compare_excel.py, lines 21-51 of ImagePIL.py
TransparencyOf(file, include_semi, failed) ==
    IF ~file.opens THEN failed
    ELSE IF Len(file.alpha) = 0 THEN failed
    ELSE RoundedRatio(IF include_semi THEN CountBelow(file.alpha, 255)
                      ELSE CountBelow(file.alpha, 1),
                      Len(file.alpha))

\* batch_compare_excel.py lines 477-527
calculate_transparency_ratio(file, include_semi) ==
    IF ~file.exists THEN -99900
    ELSE IF file.suffix \notin valid_suffix THEN -99900
    ELSE TransparencyOf(file, include_semi, -99900)

\* ImagePIL.py lines 4-51
calculate_transparency_ratio_PIL(file, include_semi) ==
    IF ~file.exists THEN -100
    ELSE IF lower(file.suffix) \notin valid_suffix THEN 0
    ELSE TransparencyOf(file, include_semi, -100)

RatioOf(version, file, include_semi) ==
    IF version = "batch" THEN calculate_transparency_ratio(file, include_semi)
    ELSE calculate_transparency_ratio_PIL(file, include_semi)

InitRatio ==
    /\ ratio_call \in {[version |-> v, file |-> f, pc |-> "called",
                        ratio1 |-> 0, ratio2 |-> 0] :
                          v \in {"batch", "ImagePIL"}, f \in RatioFiles}
    /\ file1 = Missing
    /\ file2 = Missing
    /\ pc = "ratio"
    /\ img1 = NoImage
    /\ img2 = NoImage
    /\ region1 = NoRegion
    /\ region2 = NoRegion
    /\ aligned_sim = NoSim
    /\ phash_dist = 0
    /\ dhash_dist = 0
    /\ results = NoResults
    /\ error = ""
    /\ reads = <<0, 0>>
    /\ show_details = FALSE
    /\ printed = << >>
    /\ bgr = <<NoImage, NoImage>>
    /\ calls = Unused
    /\ matches = Unused
    /\ batch = Unused
    /\ svn = Unused
    /\ path_call = Unused

RatioFrame == UNCHANGED <<compare_vars, calls, matches, batch, svn, path_call>>

\* ratio1 = calculate_transparency_ratio(IMG_PATH)
RatioFullyTransparent ==
    /\ ratio_call.pc = "called"
    /\ ratio_call' = [ratio_call EXCEPT
          !.pc = "first",
          !.ratio1 = RatioOf(ratio_call.version, ratio_call.file, FALSE)]
    /\ RatioFrame

\* ratio2 = calculate_transparency_ratio(IMG_PATH, include_semi=True)
RatioWithSemi ==
    /\ ratio_call.pc = "first"
    /\ ratio_call' = [ratio_call EXCEPT
          !.pc = "both",
          !.ratio2 = RatioOf(ratio_call.version, ratio_call.file, TRUE)]
    /\ RatioFrame

NextRatio ==
    \/ RatioFullyTransparent
    \/ RatioWithSemi

SpecRatio == InitRatio /\ [][NextRatio]_vars

\* C30: calculate_transparency_ratio returns 0.0 .. 100.0 on success and -1
\* when the file does not exist or is not an image; for the same image the
\* ratio with include_semi = True is never smaller than the ratio without.
C30_RatioOrMinusOne ==
    ratio_call.pc = "both" =>
        /\ \A r \in {ratio_call.ratio1, ratio_call.ratio2} :
              IF ratio_call.file.exists /\ ratio_call.file.opens
              THEN r \in 0..10000 \/ r = -100
              ELSE r = -100
        /\ ratio_call.ratio2 >= ratio_call.ratio1
=============================================================================
